---------------------------- MODULE Spec2Model ----------------------------
(***************************************************************************)
(* Model of solarApp.py: the solar estimation pipeline behind the          *)
(* "Estimate Solar Potential" button, and its pure numeric functions.      *)
(*                                                                         *)
(* Numbers.  The program computes in floating point; the model computes    *)
(* the same expressions exactly, on scaled integers:                       *)
(*   irradiance            hundredths of kWh/m2/day (the value round(.,2)) *)
(*   area_m2               m2                                              *)
(*   panel_efficiency      hundredths                                      *)
(*   energy_kWh            1/10^4 kWh   (hundredths * hundredths)          *)
(*   inverter_kW, battery  hundredths   (the value round(.,2))             *)
(*   system capacity       W                                               *)
(*   total_cost            cents                                           *)
(*   savings, rates        fractions <<numerator, denominator>>            *)
(* Optional values are sequences: <<>> is None, <<y>> is the value y.      *)
(***************************************************************************)
EXTENDS Integers, Sequences, FiniteSets, TLC

VARIABLES
    pc,                \* position of the script inside the button handler
    run,               \* number of button presses so far
    location,          \* st.text_input      (line 77)
    area_m2,           \* st.number_input    (line 78)
    interest_rate,     \* st.number_input    (line 79)
    panel_efficiency,  \* st.number_input    (line 80)
    locals,            \* names bound by the handler so far |-> their values
    display,           \* the elements rendered on the page by this run
    trace,             \* the steps this run has executed, with their outcome
    probe              \* a call of a pure function: its arguments and result

inputs == <<location, area_m2, interest_rate, panel_efficiency>>
vars == <<pc, run, location, area_m2, interest_rate, panel_efficiency,
          locals, display, trace, probe>>

-----------------------------------------------------------------------------
(* Exact arithmetic *)

\* np.ceil(n / d) for d > 0
Ceil(n, d) == -((-n) \div d)

\* round(n / d) for d > 0, ties to the even neighbour as Python's round
RoundHalfEven(n, d) ==
    LET q == n \div d
        r == n - q * d
    IN  IF 2 * r < d THEN q
        ELSE IF 2 * r > d THEN q + 1
        ELSE IF q % 2 = 0 THEN q ELSE q + 1

RECURSIVE SumSeq(_)
SumSeq(s) == IF s = <<>> THEN 0 ELSE Head(s) + SumSeq(Tail(s))

\* Naturals of any size, as little-endian sequences of limbs below Base:
\* the discount factors of line 65 over 25 years do not fit a machine word.
\* Loops over limbs and over years are evaluated by halving the range.
Base == 10^4

RECURSIVE BigFromNat(_)
BigFromNat(n) == IF n = 0 THEN <<>> ELSE <<n % Base>> \o BigFromNat(n \div Base)

BigLimb(a, i) == IF i <= Len(a) THEN a[i] ELSE 0

\* raw[lo..hi] with carry c coming in: <<the limbs, the carry going out>>
RECURSIVE Carry(_, _, _, _)
Carry(raw, lo, hi, c) ==
    IF lo = hi
    THEN LET x == raw[lo] + c IN <<<<x % Base>>, x \div Base>>
    ELSE LET mid == (lo + hi) \div 2
             L == Carry(raw, lo, mid, c)
             R == Carry(raw, mid + 1, hi, L[2])
         IN  <<L[1] \o R[1], R[2]>>

Normalize(raw) ==
    IF raw = <<>> THEN <<>>
    ELSE LET r == Carry(raw, 1, Len(raw), 0) IN r[1] \o BigFromNat(r[2])

BigAdd(a, b) ==
    Normalize([i \in 1..(IF Len(a) > Len(b) THEN Len(a) ELSE Len(b)) |->
                  BigLimb(a, i) + BigLimb(b, i)])

\* a * m for a natural m of one or two limbs
BigMulLimb(a, m) == Normalize([i \in 1..Len(a) |-> a[i] * m])

\* a * b for b of a few limbs (each raw[k] stays below 2^31)
BigMul(a, b) ==
    IF a = <<>> \/ b = <<>> THEN <<>>
    ELSE Normalize([k \in 1..(Len(a) + Len(b) - 1) |->
                      SumSeq([j \in 1..Len(b) |->
                                 IF k - j + 1 >= 1 /\ k - j + 1 <= Len(a)
                                 THEN a[k - j + 1] * b[j] ELSE 0])])

\* a >= b
BigGE(a, b) ==
    ~ \E i \in 1..(IF Len(a) > Len(b) THEN Len(a) ELSE Len(b)) :
          /\ BigLimb(a, i) < BigLimb(b, i)
          /\ \A j \in (i + 1)..(IF Len(a) > Len(b) THEN Len(a) ELSE Len(b)) :
                 BigLimb(a, j) = BigLimb(b, j)

\* sa * A >= sb * B for integers sa, sb and naturals A > 0, B > 0
SignedGE(sa, A, sb, B) ==
    IF sa >= 0
    THEN IF sb < 0 THEN TRUE
         ELSE BigGE(BigMul(A, BigFromNat(sa)), BigMul(B, BigFromNat(sb)))
    ELSE IF sb >= 0 THEN FALSE
         ELSE BigGE(BigMul(B, BigFromNat(-sb)), BigMul(A, BigFromNat(-sa)))

-----------------------------------------------------------------------------
(* Energy + Financial Estimations (lines 48-69) *)

None == <<>>
Some(v) == <<v>>

days_per_year == 365

\* line 50
estimate_energy_potential(irradiance, area, efficiency) ==
    irradiance * days_per_year * area * efficiency

panel_wattage == 350     \* W
PSH == 45                \* peak sun hours, in tenths: 4.5

\* panels_needed with round in place of np.ceil
panels_needed_rounded(energy) ==
    RoundHalfEven(energy, days_per_year * panel_wattage * PSH)

\* int(np.ceil(daily_energy / (panel_wattage * PSH / 1000))), line 56 and 59:
\* daily_energy = energy / (365 * 10^4) kWh and a panel gives
\* panel_wattage * PSH / 10^4 kWh a day
panels_needed(energy) == Ceil(energy, days_per_year * panel_wattage * PSH)

\* lines 52-59: <<panels, inverter_kW, battery_kWh>>
size_components(energy) ==
    <<panels_needed(energy),
      RoundHalfEven(energy, days_per_year * 10 * PSH),    \* daily_energy / PSH
      RoundHalfEven(energy, days_per_year * 2 * 100)>>   \* daily_energy * 0.5

panel_kW == 350          \* the 0.35 kW of line 101, in W
cost_per_watt == 50      \* 0.5 a watt, in cents
bos_cost == 15           \* 0.15 a watt, in cents
battery_cost == 200      \* 200 a kWh: cents a hundredth of a kWh

\* line 101, in W
system_capacity(panels) == panels * panel_kW

\* lines 102-103, in cents
total_cost_of(panels, battery) ==
    system_capacity(panels) * (cost_per_watt + bos_cost) + battery * battery_cost

system_lifetime == 25
lifetime == 25

\* lines 61-62: the quotient total_cost / (annual_energy * years), kept as its
\* three terms; Python raises ZeroDivisionError when the divisor is 0.0
calculate_lcoe(total_cost, annual_energy, years) ==
    IF annual_energy = 0 \/ years = 0
    THEN [raised |-> TRUE, exc |-> "float division by zero", value |-> <<>>]
    ELSE [raised |-> FALSE, exc |-> "", value |-> <<total_cost, annual_energy, years>>]

\* line 106: energy * 0.15 a kWh, in cents, as a fraction
savings_of(energy) == <<energy * 3, 2 * 10^3>>

\* DiscountStep with annual_savings * (1 + rate)^year in place of
\* annual_savings / (1 + rate)^year
DiscountStepCompounding(acc, rate) ==
    LET rdpow == BigMulLimb(acc.rdpow, rate[2] + rate[1])
    IN  [cum   |-> BigAdd(BigMulLimb(acc.cum, rate[2]), rdpow),
         rdpow |-> rdpow,
         gpow  |-> BigMulLimb(acc.gpow, rate[2])]

\* lines 65-66 at one year, without the factor annual_savings: with
\* rate = rn / rd, the entry 1 / (1 + rate)^year of cash_flows is
\* rd^year / (rd + rn)^year, and cumulative[year] is cum / (rd + rn)^year with
\* cum(year) = (rd + rn) * cum(year - 1) + rd^year
DiscountStep(acc, rate) ==
    LET rdpow == BigMulLimb(acc.rdpow, rate[2])
    IN  [cum   |-> BigAdd(BigMulLimb(acc.cum, rate[2] + rate[1]), rdpow),
         rdpow |-> rdpow,
         gpow  |-> BigMulLimb(acc.gpow, rate[2] + rate[1])]

\* cumulative[year] >= total_cost (the comparison of lines 67 and 69), where
\* cumulative[year] = annual_savings * acc.cum / acc.gpow
CumulativeGE(total_cost, annual_savings, acc) ==
    SignedGE(annual_savings[1], acc.cum,
             total_cost, BigMulLimb(acc.gpow, annual_savings[2]))

\* the years lo..hi of lines 65-66, from the sums acc of the year lo - 1:
\* cumulative >= total_cost at each of them, and the sums of the year hi
RECURSIVE Years(_, _, _, _, _, _)
Years(total_cost, annual_savings, rate, lo, hi, acc) ==
    IF lo = hi
    THEN LET now == DiscountStep(acc, rate)
         IN  [reached |-> <<CumulativeGE(total_cost, annual_savings, now)>>,
              acc |-> now]
    ELSE LET mid == (lo + hi) \div 2
             L == Years(total_cost, annual_savings, rate, lo, mid, acc)
             R == Years(total_cost, annual_savings, rate, mid + 1, hi, L.acc)
         IN  [reached |-> L.reached \o R.reached, acc |-> R.acc]

\* np.argmax(bools): the first index (from 0) holding TRUE, 0 when none does
ArgMax(bools) ==
    IF \E i \in DOMAIN bools : bools[i]
    THEN (CHOOSE i \in DOMAIN bools : bools[i] /\ \A j \in 1..(i - 1) : ~bools[j]) - 1
    ELSE 0

\* calculate_discounted_payback without the "+ 1" of line 69
payback_zero_based(total_cost, annual_savings, rate, life) ==
    LET reached == Years(total_cost, annual_savings, rate, 1, life,
                         [cum |-> <<>>, rdpow |-> <<1>>, gpow |-> <<1>>]).reached
    IN  IF ~reached[life]
        THEN None
        ELSE Some(ArgMax(reached))

\* calculate_discounted_payback without the guard of lines 67-68
payback_unguarded(total_cost, annual_savings, rate, life) ==
    LET reached == Years(total_cost, annual_savings, rate, 1, life,
                         [cum |-> <<>>, rdpow |-> <<1>>, gpow |-> <<1>>]).reached
    IN  Some(ArgMax(reached) + 1)

\* lines 64-69
calculate_discounted_payback(total_cost, annual_savings, rate, life) ==
    LET reached == Years(total_cost, annual_savings, rate, 1, life,
                         [cum |-> <<>>, rdpow |-> <<1>>, gpow |-> <<1>>]).reached
    IN  IF ~reached[life]
        THEN None
        ELSE Some(ArgMax(reached) + 1)

-----------------------------------------------------------------------------
(* What a function does: it returns a value or raises an exception *)

Return(v) == [raised |-> FALSE, exc |-> "", value |-> v]
Raise(message) == [raised |-> TRUE, exc |-> message, value |-> <<>>]

LocationMessage == "Could not find location. Please enter a valid city or region."
PvgisMessage == "PVGIS failed"
NasaMessage == "NASA POWER fallback also failed"

\* get_coordinates without the check of lines 11-12
get_coordinates_unchecked(reply) ==
    IF reply.kind = "service_error" THEN Raise("GeocoderServiceError")
    ELSE Return(<<reply.latitude, reply.longitude>>)

\* lines 8-13. reply is what geolocator.geocode does: it raises, returns None,
\* or returns a match
get_coordinates(reply) ==
    IF reply.kind = "service_error" THEN Raise("GeocoderServiceError")
    ELSE IF reply.kind = "no_match" THEN Raise(LocationMessage)
    ELSE Return(<<reply.latitude, reply.longitude>>)

\* lines 16-30. reply is what the PVGIS request does: requests.get raises
\* (line 23), the body is no JSON (line 24), the JSON lacks the fields read
\* inside the try (line 26), or it holds an hourly series of G(i), in Wh/m2
get_irradiance_pvgis(reply) ==
    IF reply.kind = "connection_error" THEN Raise("ConnectionError")
    ELSE IF reply.kind = "not_json" THEN Raise("JSONDecodeError")
    ELSE IF reply.kind = "malformed" THEN Raise(PvgisMessage)
    ELSE Return(RoundHalfEven(SumSeq(reply.series), 10 * days_per_year))

\* lines 33-46. As above; the series holds the monthly ALLSKY_SFC_SW_DWN
\* values, in hundredths; len(values) = 0 raises inside the try (line 43)
get_irradiance_nasa(reply) ==
    IF reply.kind = "connection_error" THEN Raise("ConnectionError")
    ELSE IF reply.kind = "not_json" THEN Raise("JSONDecodeError")
    ELSE IF reply.kind = "malformed" THEN Raise(NasaMessage)
    ELSE IF Len(reply.series) = 0 THEN Raise(NasaMessage)
    ELSE Return(RoundHalfEven(SumSeq(reply.series), Len(reply.series)))

-----------------------------------------------------------------------------
(* The page: the elements the st.* calls render *)

Element(fn, label, nums, text) ==
    [fn |-> fn, label |-> label, nums |-> nums, text |-> text]

\* line 116: payback if payback else 'Not recovered in 25 years'
payback_shown(payback) ==
    IF payback # None /\ payback[1] # 0
    THEN Element("markdown", "Discounted Payback Period", payback, "")
    ELSE Element("markdown", "Discounted Payback Period", <<>>,
                 "Not recovered in 25 years")

\* lines 110-116. {energy_kWh:.0f} rounds to whole kWh; the LCOE is shown by
\* its terms
results_shown(l) ==
    << Element("subheader", "Results Summary", <<>>, ""),
       Element("markdown", "Avg. Irradiance", <<l.irradiance>>, ""),
       Element("markdown", "Annual Energy Output",
               <<RoundHalfEven(l.energy_kWh, 10^4)>>, ""),
       Element("markdown", "System Components",
               <<l.panels, l.inverter_kW, l.battery_kWh>>, ""),
       Element("markdown", "Estimated System Cost", <<l.total_cost>>, ""),
       Element("markdown", "LCOE", l.lcoe, ""),
       payback_shown(l.payback) >>

\* line 119
error_shown(exc) == Element("error", "Error", <<>>, exc)

-----------------------------------------------------------------------------
(* The inputs of a run and the answers of the three services *)

MaxRuns == 2

Locations == {"Accra, Ghana", "Atlantis"}
Areas == {1, 5}                               \* min_value 1.0
Rates == {<<0, 1>>, <<2, 25>>, <<1, 5>>, <<1, 1>>}   \* 0, 0.08, 0.2, 1.0
Efficiencies == {10, 18, 25}                  \* 0.1 to 0.25

Reply(kind, series) == [kind |-> kind, series |-> series]

GeocodeReplies ==
    { [kind |-> "service_error", latitude |-> 0, longitude |-> 0],
      [kind |-> "no_match", latitude |-> 0, longitude |-> 0],
      [kind |-> "match", latitude |-> 55600, longitude |-> -2057] }

\* an hourly series is abbreviated to the sums of a few runs of hours
PvgisReplies ==
    { Reply("connection_error", <<>>), Reply("not_json", <<>>),
      Reply("malformed", <<>>),
      Reply("series", <<>>),
      Reply("series", <<18250>>),
      Reply("series", <<730000, 1095000>>) }

\* -99900 is the fill value -999 of a month without data
NasaReplies ==
    { Reply("connection_error", <<>>), Reply("not_json", <<>>),
      Reply("malformed", <<>>),
      Reply("series", <<>>),
      Reply("series", [m \in 1..12 |-> 0]),
      Reply("series", [m \in 1..12 |-> 440 + 10 * m]),
      Reply("series", [m \in 1..12 |-> IF m = 1 THEN -99900 ELSE 500]) }

\* what the trace notes of a reply
Note(reply) ==
    IF reply.kind = "series" /\ reply.series = <<>> THEN "empty_series"
    ELSE reply.kind

Step(step, raised, note) == [step |-> step, raised |-> raised, note |-> note]

-----------------------------------------------------------------------------
(* The button handler, lines 83-119 *)

Init ==
    /\ pc = "idle"
    /\ run = 0
    /\ location = "Accra, Ghana"
    /\ area_m2 = 100
    /\ interest_rate = <<2, 25>>
    /\ panel_efficiency = 18
    /\ locals = <<>>
    /\ display = <<>>
    /\ trace = <<>>
    /\ probe = <<>>

\* After with the fallback provider asked first
AfterFallbackFirst(step) ==
    CASE step = "get_coordinates" -> "get_irradiance_nasa"
      [] step = "get_irradiance_pvgis" -> "estimate_energy_potential"
      [] step = "get_irradiance_nasa" -> "estimate_energy_potential"
      [] step = "estimate_energy_potential" -> "size_components"
      [] step = "size_components" -> "total_cost"
      [] step = "total_cost" -> "calculate_lcoe"
      [] step = "calculate_lcoe" -> "calculate_discounted_payback"
      [] step = "calculate_discounted_payback" -> "results"
      [] step = "results" -> "done"

\* the statements of the try block (lines 85-116) in order: where the handler
\* is once `step` has returned
After(step) ==
    CASE step = "get_coordinates" -> "get_irradiance_pvgis"
      [] step = "get_irradiance_pvgis" -> "estimate_energy_potential"
      [] step = "get_irradiance_nasa" -> "estimate_energy_potential"
      [] step = "estimate_energy_potential" -> "size_components"
      [] step = "size_components" -> "total_cost"
      [] step = "total_cost" -> "calculate_lcoe"
      [] step = "calculate_lcoe" -> "calculate_discounted_payback"
      [] step = "calculate_discounted_payback" -> "results"
      [] step = "results" -> "done"

\* line 83: the button is pressed with the widgets holding loc, a, r, e; the
\* script runs again from the top on an empty page
Button(loc, a, r, e) ==
    /\ pc \in {"idle", "done", "failed"}
    /\ run < MaxRuns
    /\ run' = run + 1
    /\ location' = loc
    /\ area_m2' = a
    /\ interest_rate' = r
    /\ panel_efficiency' = e
    /\ locals' = <<>>
    /\ display' = <<>>
    /\ trace' = <<>>
    /\ pc' = "get_coordinates"
    /\ UNCHANGED probe

\* lines 118-119: the exception of `step` reaches the outer handler
Except(step, note, exc) ==
    /\ pc' = "failed"
    /\ display' = Append(display, error_shown(exc))
    /\ trace' = Append(trace, Step(step, TRUE, note))
    /\ UNCHANGED <<run, inputs, locals, probe>>

\* the handler goes on to `next`, with names bound and elements rendered
Go(step, bound, rendered, next) ==
    /\ pc' = next
    /\ locals' = bound @@ locals
    /\ display' = display \o rendered
    /\ trace' = Append(trace, step)
    /\ UNCHANGED <<run, inputs, probe>>

\* lines 85-86
GetCoordinates ==
    /\ pc = "get_coordinates"
    /\ \E reply \in GeocodeReplies :
          LET r == get_coordinates(reply)
          IN  IF r.raised
              THEN Except("get_coordinates", Note(reply), r.exc)
              ELSE Go(Step("get_coordinates", FALSE, Note(reply)),
                      [lat |-> r.value[1], lon |-> r.value[2]],
                      <<Element("markdown", "Coordinates", r.value, "")>>,
                      After("get_coordinates"))

\* lines 88-91: whatever get_irradiance_pvgis raises is caught by the bare
\* except, which goes on to the fallback
GetIrradiancePvgis ==
    /\ pc = "get_irradiance_pvgis"
    /\ \E reply \in PvgisReplies :
          LET r == get_irradiance_pvgis(reply)
          IN  IF r.raised
              THEN Go(Step("get_irradiance_pvgis", TRUE, Note(reply)),
                      <<>>, <<>>, "get_irradiance_nasa")
              ELSE Go(Step("get_irradiance_pvgis", FALSE, Note(reply)),
                      [irradiance |-> r.value],
                      <<Element("success", "Data source: PVGIS", <<>>, "")>>,
                      After("get_irradiance_pvgis"))

\* lines 92-93: what get_irradiance_nasa raises leaves the inner handler and
\* reaches the outer one
GetIrradianceNasa ==
    /\ pc = "get_irradiance_nasa"
    /\ \E reply \in NasaReplies :
          LET r == get_irradiance_nasa(reply)
          IN  IF r.raised
              THEN Except("get_irradiance_nasa", Note(reply), r.exc)
              ELSE Go(Step("get_irradiance_nasa", FALSE, Note(reply)),
                      [irradiance |-> r.value],
                      <<Element("warning",
                                "PVGIS failed. Used NASA POWER as fallback.",
                                <<>>, "")>>,
                      After("get_irradiance_nasa"))

\* line 95
EstimateEnergy ==
    /\ pc = "estimate_energy_potential"
    /\ Go(Step("estimate_energy_potential", FALSE, ""),
          [energy_kWh |-> estimate_energy_potential(locals.irradiance, area_m2,
                                                    panel_efficiency)],
          <<>>, After("estimate_energy_potential"))

\* line 96
SizeComponents ==
    /\ pc = "size_components"
    /\ LET sized == size_components(locals.energy_kWh)
       IN  Go(Step("size_components", FALSE, ""),
              [panels |-> sized[1], inverter_kW |-> sized[2],
               battery_kWh |-> sized[3]],
              <<>>, After("size_components"))

\* lines 98-103
TotalCost ==
    /\ pc = "total_cost"
    /\ Go(Step("total_cost", FALSE, ""),
          [system_capacity_kW |-> system_capacity(locals.panels),
           total_cost |-> total_cost_of(locals.panels, locals.battery_kWh)],
          <<>>, After("total_cost"))

\* line 105
CalculateLcoe ==
    /\ pc = "calculate_lcoe"
    /\ LET r == calculate_lcoe(locals.total_cost, locals.energy_kWh,
                               system_lifetime)
       IN  IF r.raised
           THEN Except("calculate_lcoe", "", r.exc)
           ELSE Go(Step("calculate_lcoe", FALSE, ""), [lcoe |-> r.value],
                   <<>>, After("calculate_lcoe"))

\* lines 106-107
CalculateDiscountedPayback ==
    /\ pc = "calculate_discounted_payback"
    /\ LET savings == savings_of(locals.energy_kWh)
       IN  Go(Step("calculate_discounted_payback", FALSE, ""),
              [savings |-> savings,
               payback |-> calculate_discounted_payback(
                               locals.total_cost, savings, interest_rate,
                               lifetime)],
              <<>>, After("calculate_discounted_payback"))

\* lines 109-116
Results ==
    /\ pc = "results"
    /\ Go(Step("results", FALSE, ""), <<>>, results_shown(locals),
          After("results"))

Next ==
    \/ \E loc \in Locations, a \in Areas, r \in Rates, e \in Efficiencies :
          Button(loc, a, r, e)
    \/ GetCoordinates
    \/ GetIrradiancePvgis
    \/ GetIrradianceNasa
    \/ EstimateEnergy
    \/ SizeComponents
    \/ TotalCost
    \/ CalculateLcoe
    \/ CalculateDiscountedPayback
    \/ Results

Spec == Init /\ [][Next]_vars

-----------------------------------------------------------------------------
(* calculate_discounted_payback and size_components called on their own *)

MaxCost == 40
MaxSavings == 6
MaxPanels == 30

Idle ==
    /\ pc = "idle"
    /\ run = 0
    /\ location = "Accra, Ghana"
    /\ area_m2 = 100
    /\ interest_rate = <<2, 25>>
    /\ panel_efficiency = 18
    /\ locals = <<>>
    /\ display = <<>>
    /\ trace = <<>>

InitPayback ==
    /\ Idle
    /\ \E c \in (-2)..MaxCost, s \in (-1)..MaxSavings, r \in Rates :
          probe = [fn |-> "calculate_discounted_payback", called |-> FALSE,
                   total_cost |-> c, annual_savings |-> <<s, 1>>,
                   interest_rate |-> r, result |-> None]

CallPayback ==
    /\ probe.fn = "calculate_discounted_payback"
    /\ ~probe.called
    /\ probe' = [probe EXCEPT
                   !.called = TRUE,
                   !.result = calculate_discounted_payback(
                                  probe.total_cost, probe.annual_savings,
                                  probe.interest_rate, lifetime)]
    /\ UNCHANGED <<pc, run, inputs, locals, display, trace>>

SpecPayback == InitPayback /\ [][CallPayback]_vars

\* the energy one panel gives in a year
PanelEnergy == days_per_year * panel_wattage * PSH

\* energies at, just under and just over a whole number of panels, and 1/100
\* and 1/2 of a panel over it
SizeEnergies ==
    { e \in { k * PanelEnergy + d :
                 k \in 0..MaxPanels,
                 d \in {-1, 0, 1, 57488, PanelEnergy \div 2} } : e >= 0 }

InitSize ==
    /\ Idle
    /\ \E e \in SizeEnergies :
          probe = [fn |-> "size_components", called |-> FALSE, energy |-> e,
                   result |-> <<0, 0, 0>>, system_capacity |-> 0,
                   total_cost |-> 0]

\* line 96 and lines 101-103
CallSize ==
    /\ probe.fn = "size_components"
    /\ ~probe.called
    /\ LET sized == size_components(probe.energy)
       IN  probe' = [probe EXCEPT
                       !.called = TRUE,
                       !.result = sized,
                       !.system_capacity = system_capacity(sized[1]),
                       !.total_cost = total_cost_of(sized[1], sized[3])]
    /\ UNCHANGED <<pc, run, inputs, locals, display, trace>>

SpecSize == InitSize /\ [][CallSize]_vars

-----------------------------------------------------------------------------
(* Reading a state *)

Terminal == pc \in {"done", "failed"}

Ran(step) == \E i \in DOMAIN trace : trace[i].step = step
Returned(step) == \E i \in DOMAIN trace : trace[i].step = step /\ ~trace[i].raised
Raised(step) == \E i \in DOMAIN trace : trace[i].step = step /\ trace[i].raised
Times(step) == Cardinality({i \in DOMAIN trace : trace[i].step = step})
Noted(step, note) ==
    \E i \in DOMAIN trace : trace[i].step = step /\ trace[i].note = note

Shown(fn, label) ==
    \E i \in DOMAIN display : display[i].fn = fn /\ display[i].label = label
ErrorsShown == {i \in DOMAIN display : display[i].fn = "error"}

PrimaryTagShown == Shown("success", "Data source: PVGIS")
FallbackTagShown == Shown("warning", "PVGIS failed. Used NASA POWER as fallback.")

LaterStages ==
    {"estimate_energy_potential", "size_components", "total_cost",
     "calculate_lcoe", "calculate_discounted_payback", "results"}

\* the irradiance stage of the run is over
IrradianceDecided ==
    /\ Returned("get_coordinates")
    /\ pc \notin {"get_irradiance_pvgis", "get_irradiance_nasa"}

-----------------------------------------------------------------------------
(* The sum of the discounted savings in closed form, for the checks:       *)
(* sum over k = 1..year of 1 / (1 + rate)^k is year when rate = 0 and      *)
(* rd * (g^year - rd^year) / (rn * g^year), g = rd + rn, otherwise         *)

RECURSIVE BigPow(_, _)
BigPow(b, e) ==
    IF e = 0 THEN <<1>>
    ELSE LET h == BigPow(b, e \div 2)
             sq == BigMul(h, h)
         IN  IF e % 2 = 0 THEN sq ELSE BigMulLimb(sq, b)

\* a - b for a >= b
BigSub(a, b) == Normalize([i \in 1..Len(a) |-> a[i] - BigLimb(b, i)])

ClosedFormGE(total_cost, annual_savings, rate, year) ==
    IF rate[1] = 0
    THEN SignedGE(annual_savings[1], <<year>>,
                  total_cost, BigFromNat(annual_savings[2]))
    ELSE LET g == BigPow(rate[2] + rate[1], year)
         IN  SignedGE(annual_savings[1],
                      BigMulLimb(BigSub(g, BigPow(rate[2], year)), rate[2]),
                      total_cost,
                      BigMulLimb(BigMulLimb(g, rate[1]), annual_savings[2]))

\* rate r is at most rate q
RateLE(r, q) == r[1] * q[2] <= q[1] * r[2]

-----------------------------------------------------------------------------
(* Claims *)

\* Primary failed, in the sense of C1: it raised, or its series was empty
PrimaryFailed ==
    \/ Raised("get_irradiance_pvgis")
    \/ Noted("get_irradiance_pvgis", "empty_series")

\* C1: in a run past coordinate resolution Primary is tried first and once;
\* Fallback is called once if Primary failed (network error, malformed
\* response or empty series) and never otherwise, and never before Primary;
\* the source shown is PRIMARY exactly when Primary answered and FALLBACK
\* exactly when Primary failed and Fallback answered; a completed run shows
\* exactly one source.
C1_ProviderPolicy ==
    /\ Times("get_irradiance_pvgis") <= 1
    /\ Times("get_irradiance_nasa") <= 1
    /\ \A i \in DOMAIN trace :
          trace[i].step = "get_irradiance_nasa"
          => \E j \in 1..(i - 1) : trace[j].step = "get_irradiance_pvgis"
    /\ IrradianceDecided =>
          /\ Times("get_irradiance_pvgis") = 1
          /\ Times("get_irradiance_nasa") = (IF PrimaryFailed THEN 1 ELSE 0)
          /\ PrimaryTagShown <=> ~PrimaryFailed
          /\ FallbackTagShown <=>
                (PrimaryFailed /\ Returned("get_irradiance_nasa"))
    /\ pc = "done" => (PrimaryTagShown /\ ~FallbackTagShown)
                      \/ (FallbackTagShown /\ ~PrimaryTagShown)

\* C2: when both providers fail the run is FAILED, the error shown is the
\* irradiance-unavailable one, and no later stage has run.
C2_BothProvidersFail ==
    (Raised("get_irradiance_pvgis") /\ Raised("get_irradiance_nasa"))
    => /\ pc = "failed"
       /\ display[Len(display)] = error_shown(NasaMessage)
       /\ \A st \in LaterStages : ~Ran(st)

\* C3: when geocoding finds no match the run fails with the
\* location-not-found message as the only thing shown, and neither
\* irradiance provider is ever called.
C3_LocationNotFound ==
    Noted("get_coordinates", "no_match")
    => /\ pc = "failed"
       /\ display = <<error_shown(LocationMessage)>>
       /\ ~Ran("get_irradiance_pvgis")
       /\ ~Ran("get_irradiance_nasa")
       /\ Len(trace) = 1

C3_Witness ==
    /\ Noted("get_coordinates", "no_match")
    /\ pc = "failed"
    /\ run = 1

\* C4: a run shows either the complete output of all stages and no error, or
\* exactly one error message and nothing else.
C4_AllOrNothing ==
    /\ pc = "failed" => Len(display) = 1 /\ display[1].fn = "error"
    /\ pc = "done" =>
          /\ ErrorsShown = {}
          /\ Shown("markdown", "Coordinates")
          /\ PrimaryTagShown \/ FallbackTagShown
          /\ SubSeq(display, 3, Len(display)) = results_shown(locals)

\* C5: a run whose annual energy is zero or negative never reaches DONE and
\* never shows sizing, cost or LCOE.
C5_NonPositiveEnergyIsFatal ==
    ("energy_kWh" \in DOMAIN locals /\ locals.energy_kWh <= 0)
    => /\ pc # "done"
       /\ ~Shown("markdown", "System Components")
       /\ ~Shown("markdown", "Estimated System Cost")
       /\ ~Shown("markdown", "LCOE")

\* C6: for annual_savings > 0 the result is the smallest year in 1..25 at
\* which the sum of the discounted savings reaches total_cost, and None
\* exactly when no year does; it is None whenever 25 * annual_savings is
\* below total_cost.
C6_PaybackIsFirstYear ==
    (probe.called /\ probe.annual_savings[1] > 0)
    => LET GE(y) == ClosedFormGE(probe.total_cost, probe.annual_savings,
                                 probe.interest_rate, y)
       IN  /\ probe.result = None <=> \A y \in 1..lifetime : ~GE(y)
           /\ probe.result # None =>
                 /\ probe.result[1] \in 1..lifetime
                 /\ GE(probe.result[1])
                 /\ \A y \in 1..(probe.result[1] - 1) : ~GE(y)
           /\ lifetime * probe.annual_savings[1]
                 < probe.total_cost * probe.annual_savings[2]
              => probe.result = None

C6_Witness ==
    /\ probe.called
    /\ probe.annual_savings = <<3, 1>>
    /\ probe.total_cost = 10
    /\ probe.interest_rate = <<2, 25>>
    /\ probe.result = <<5>>

\* C7: for annual_savings > 0 and rates r1 <= r2 the result at r2 is None or
\* a year not before the result at r1, and is None when the result at r1 is.
C7_MonotoneInRate ==
    (probe.called /\ probe.annual_savings[1] > 0)
    => \A r2 \in Rates :
          RateLE(probe.interest_rate, r2)
          => LET at2 == calculate_discounted_payback(
                            probe.total_cost, probe.annual_savings, r2, lifetime)
             IN  /\ probe.result = None => at2 = None
                 /\ (probe.result # None /\ at2 # None)
                    => at2[1] >= probe.result[1]

C7_Witness ==
    /\ probe.called
    /\ probe.annual_savings = <<6, 1>>
    /\ probe.total_cost = 23
    /\ probe.interest_rate = <<0, 1>>
    /\ probe.result = <<4>>
    /\ calculate_discounted_payback(23, <<6, 1>>, <<2, 25>>, lifetime) = <<5>>
    /\ calculate_discounted_payback(23, <<6, 1>>, <<1, 1>>, lifetime) = None

StageNames == [i \in DOMAIN trace |-> trace[i].step]

Canon ==
    IF Ran("get_irradiance_nasa")
    THEN <<"get_coordinates", "get_irradiance_pvgis", "get_irradiance_nasa",
           "estimate_energy_potential", "size_components", "total_cost",
           "calculate_lcoe", "calculate_discounted_payback", "results">>
    ELSE <<"get_coordinates", "get_irradiance_pvgis",
           "estimate_energy_potential", "size_components", "total_cost",
           "calculate_lcoe", "calculate_discounted_payback", "results">>

StageOrder ==
    /\ Len(trace) <= Len(Canon)
    /\ StageNames = SubSeq(Canon, 1, Len(trace))
    /\ Ran("get_irradiance_nasa") => Raised("get_irradiance_pvgis")
    /\ \A i \in DOMAIN trace :
          trace[i].raised
          => IF trace[i].step = "get_irradiance_pvgis"
             THEN pc = "get_irradiance_nasa" \/ Ran("get_irradiance_nasa")
             ELSE i = Len(trace) /\ pc = "failed"
    /\ pc = "failed" =>
          /\ trace # <<>>
          /\ trace[Len(trace)].raised
          /\ trace[Len(trace)].step # "get_irradiance_pvgis"
    /\ pc = "done" =>
          /\ Len(trace) = Len(Canon)
          /\ \A i \in DOMAIN trace :
                trace[i].raised => trace[i].step = "get_irradiance_pvgis"
    /\ pc \notin {"idle", "done", "failed"} =>
          pc = IF trace # <<>> /\ trace[Len(trace)].raised
               THEN "get_irradiance_nasa"
               ELSE Canon[Len(trace) + 1]

\* C9: the stages of a run execute in the order coordinates, irradiance,
\* energy, sizing, cost, LCOE, payback, results, each only after every
\* earlier one has returned; when a stage fails the run is FAILED and nothing
\* more of it executes; DONE and FAILED end the run: the only step from them
\* is a new press of the button.
C9_StagesInOrder ==
    /\ []StageOrder
    /\ [][ /\ Terminal => (pc' = "get_coordinates" /\ run' = run + 1
                           /\ trace' = <<>> /\ display' = <<>>)
           /\ pc \notin {"idle", "done", "failed"} =>
                 (run' = run /\ Len(trace') = Len(trace) + 1) ]_vars

C9_Witness ==
    /\ pc = "failed"
    /\ Raised("calculate_lcoe")
    /\ Len(trace) = 6

\* C10: when calculate_discounted_payback returns a year it is one of
\* 1..25 at which the discounted savings have reached the cost, and a
\* completed run shows 'Not recovered in 25 years' exactly when it
\* returned None and the year otherwise.
C10_PaybackShown ==
    /\ "payback" \in DOMAIN locals =>
          \/ locals.payback = None
          \/ /\ locals.payback[1] \in 1..lifetime
             /\ ClosedFormGE(locals.total_cost, locals.savings, interest_rate,
                             locals.payback[1])
    /\ pc = "done" =>
          LET last == display[Len(display)]
          IN  /\ last.label = "Discounted Payback Period"
              /\ last.text = "Not recovered in 25 years" <=> locals.payback = None
              /\ locals.payback # None =>
                    (last.nums = locals.payback /\ last.text = "")

C10_Witness ==
    /\ pc = "done"
    /\ locals.energy_kWh > 0
    /\ locals.payback = None
    /\ display[Len(display)].text = "Not recovered in 25 years"

=============================================================================
